---- MODULE Spec2Model ----
(***************************************************************************)
(* Verification model of the PyTeal loop lowering (While / Break /         *)
(* Continue over the compile options), of Router compilation and of the    *)
(* n-ary And lowering.                                                      *)
(***************************************************************************)
EXTENDS Integers, Sequences, FiniteSets, TLC

\* ------------------------------------------------------------------------
\* Bounds
\* ------------------------------------------------------------------------
\* number of expressions lowered in one compilation
MaxNodes == 5
\* nesting depth of While loops
MaxDepth == 2
\* expressions in one branch of an If
MaxBranch == 2
\* Ifs in one program
MaxIfs == 2

\* Python's None for block and loop references
None == 0

VARIABLES
    blocks,      \* arena of TealBlocks created so far, addressed by index
    options,     \* CompileOptions: currentLoop, breakBlocks, continueBlocks
    stack,       \* active __teal__ calls: the top-level Seq and the While loops being lowered
    loops,       \* one record per While: its locals and its return value
    breakReg,    \* history: <<block, loop>> for every block Break appended
    contReg,     \* history: <<block, loop>> for every block Continue appended
    err,         \* the exception that ended the compilation, or "none"
    nodes,       \* number of expressions lowered so far
    last,        \* history: the last __teal__ call and its arguments
    ifs,         \* one record per If: the blocks its lowering created
    code         \* the linearized program, once the block graph has been flattened

lvars == <<blocks, options, stack, loops, breakReg, contReg, err, nodes, last, ifs, code>>

VARIABLES
    router,      \* the Router object: its approval AST, clear-state program and registries
    input,       \* the version and options every compile_program call is given
    heap,        \* the Compilation objects created so far, by reference
    pc,          \* per thread: where its compile_program call stands
    frame,       \* per thread: the locals of _build_impl (ap, csp, contract, bundles)
    outputs,     \* per thread: what its compile_program calls returned, in order
    reg          \* history: the last call of the Router API, its arguments and its outcome

rvars == <<router, input, heap, pc, frame, outputs, reg>>

VARIABLES
    andArgs,     \* the values the operands of And(...) evaluate to
    andCode,     \* the linearized operations of the lowered And
    ip,          \* the next operation the AVM executes
    vmStack,     \* the AVM's value stack
    trace        \* the operands whose operations have been executed, in order

avars == <<andArgs, andCode, ip, vmStack, trace>>

VARIABLES
    mode,        \* "frame" with frame pointers on, "scratch" with frame pointers off
    phase,       \* "declare" while subroutines are declared, then "allocate"
    subs,        \* the subroutines of the program, in the order they are compiled
    mainSlots,   \* the scratch slots of the variables of the main routine
    nextSlot     \* the next free scratch slot of the compilation

fvars == <<mode, phase, subs, mainSlots, nextSlot>>

VARIABLES
    flags,       \* the class attributes NatalStackFrame._no_stackframes and _debug
    flags0,      \* history: the flags before any context was entered
    ctx,         \* per thread: where it stands in sourcemapping_off_context, and its locals
    natal        \* a NatalStackFrame: the stack it is constructed on and what it keeps

svars == <<flags, flags0, ctx, natal>>

vars == <<lvars, rvars, avars, fvars, svars>>

\* ------------------------------------------------------------------------
\* Blocks
\* ------------------------------------------------------------------------
\* TealSimpleBlock(ops): ops is the number of operations the block holds
TealSimpleBlock(ops) ==
    [kind |-> "simple", ops |-> ops, nextBlock |-> None, trueBlock |-> None, falseBlock |-> None]

\* TealConditionalBlock([]) with both branches set
TealConditionalBlock(t, f) ==
    [kind |-> "cond", ops |-> 0, nextBlock |-> None, trueBlock |-> t, falseBlock |-> f]

\* block.setNextBlock(target)
setNextBlock(blks, b, target) ==
    [blks EXCEPT ![b].nextBlock = target]

Range(s) == {s[i] : i \in 1..Len(s)}

\* for block in list: block.setNext(target)
SetNextAll(blks, list, target) ==
    [i \in 1..Len(blks) |->
        IF i \in Range(list) THEN [blks[i] EXCEPT !.nextBlock = target] ELSE blks[i]]

\* Seq.__teal__: the first child gives the start, every later child is
\* stitched to the end of the one before it
Stitch(blks, fr, s, e) ==
    IF fr.start = None
    THEN [blocks |-> blks, frame |-> [fr EXCEPT !.start = s, !.end = e]]
    ELSE [blocks |-> setNextBlock(blks, fr.end, s), frame |-> [fr EXCEPT !.end = e]]

\* ------------------------------------------------------------------------
\* Break.__teal__ and Continue.__teal__
\* ------------------------------------------------------------------------
\* a Break that registers its block before it tests for the enclosing loop
BreakTeal_AppendFirst(opts, blks) ==
    LET start == Len(blks) + 1
        end == Len(blks) + 2
        nb == blks \o <<TealSimpleBlock(0), TealSimpleBlock(0)>>
        no == [opts EXCEPT !.breakBlocks = Append(@, start)]
    IN  IF opts.currentLoop = None
        THEN [err |-> "BreakOutsideLoop", options |-> no, blocks |-> nb,
              start |-> None, end |-> None]
        ELSE [err |-> "none", options |-> no, blocks |-> nb, start |-> start, end |-> end]

BreakTeal(opts, blks) ==
    LET start == Len(blks) + 1
        end == Len(blks) + 2
        nb == blks \o <<TealSimpleBlock(0), TealSimpleBlock(0)>>
    IN  IF opts.currentLoop = None
        THEN [err |-> "BreakOutsideLoop", options |-> opts, blocks |-> nb,
              start |-> None, end |-> None]
        ELSE [err |-> "none",
              options |-> [opts EXCEPT !.breakBlocks = Append(@, start)],
              blocks |-> nb, start |-> start, end |-> end]

ContinueTeal(opts, blks) ==
    LET block == Len(blks) + 1
        nb == Append(blks, TealSimpleBlock(0))
    IN  IF opts.currentLoop = None
        THEN [err |-> "ContinueOutsideLoop", options |-> opts, blocks |-> blks,
              start |-> None, end |-> None]
        ELSE [err |-> "none",
              options |-> [opts EXCEPT !.continueBlocks = Append(@, block)],
              blocks |-> nb, start |-> block, end |-> block]

\* ------------------------------------------------------------------------
\* While
\* ------------------------------------------------------------------------
\* str(Seq([Int(0)])), the doBlock the constructor installs
DefaultDoBlock == "(Seq (Int 0))"

\* the bodies a caller hands to Do, by their string form
DoArgs == {"(Seq (Int 0))", "(Seq ...)"}

\* While.__init__ followed, or not, by While.Do(doArg)
WhileDoBlock(doCalled, doArg) ==
    IF doCalled THEN doArg ELSE DefaultDoBlock

\* the guard at the head of While.__teal__
HasNoDoBlock(doBlock) ==
    doBlock = DefaultDoBlock

\* While.__teal__ up to the call of self.doBlock.__teal__: the condition is
\* lowered into condLen blocks, the enclosing loop is remembered and the
\* loop fields of the options are reset
WhileTealEnter(opts, blks, self, condLen, step) ==
    LET condStart == Len(blks) + 1
        condEnd == Len(blks) + condLen
        nb == IF condLen = 1
              THEN Append(blks, TealSimpleBlock(1))
              ELSE blks \o <<[TealSimpleBlock(1) EXCEPT !.nextBlock = condEnd],
                               TealSimpleBlock(1)>>
    IN  [options |-> [currentLoop |-> self, breakBlocks |-> <<>>, continueBlocks |-> <<>>],
         blocks |-> nb,
         frame |-> [loop |-> self, condStart |-> condStart, condEnd |-> condEnd,
                    prevLoop |-> opts.currentLoop, step |-> step,
                    start |-> None, end |-> None, entry |-> opts]]

\* a While that wires the conditional block the wrong way round
WhileTealExit_Swapped(opts, blks, fr) ==
    LET end == Len(blks) + 1
        b1 == Append(blks, TealSimpleBlock(0))
        b2 == SetNextAll(b1, opts.breakBlocks, end)
        b3 == SetNextAll(b2, opts.continueBlocks, fr.start)
        stepStart == IF fr.step THEN Len(b3) + 1 ELSE None
        b4 == IF fr.step THEN Append(b3, TealSimpleBlock(1)) ELSE b3
        b5 == IF fr.step
              THEN setNextBlock(setNextBlock(b4, stepStart, fr.condStart), fr.end, stepStart)
              ELSE setNextBlock(b4, fr.end, fr.condStart)
        branchBlock == Len(b5) + 1
        b6 == Append(b5, TealConditionalBlock(end, fr.start))
        b7 == setNextBlock(b6, fr.condEnd, branchBlock)
    IN  [options |-> [opts EXCEPT !.currentLoop = fr.prevLoop],
         blocks |-> b7, start |-> fr.condStart, end |-> end,
         branchBlock |-> branchBlock, stepStart |-> stepStart, stepEnd |-> stepStart]

\* While.__teal__ after self.doBlock.__teal__ has returned (doStart, doEnd)
\* = (fr.start, fr.end)
WhileTealExit(opts, blks, fr) ==
    LET end == Len(blks) + 1
        b1 == Append(blks, TealSimpleBlock(0))
        b2 == SetNextAll(b1, opts.breakBlocks, end)
        b3 == SetNextAll(b2, opts.continueBlocks, fr.start)
        stepStart == IF fr.step THEN Len(b3) + 1 ELSE None
        b4 == IF fr.step THEN Append(b3, TealSimpleBlock(1)) ELSE b3
        b5 == IF fr.step
              THEN setNextBlock(setNextBlock(b4, stepStart, fr.condStart), fr.end, stepStart)
              ELSE setNextBlock(b4, fr.end, fr.condStart)
        branchBlock == Len(b5) + 1
        b6 == Append(b5, TealConditionalBlock(fr.start, end))
        b7 == setNextBlock(b6, fr.condEnd, branchBlock)
    IN  [options |-> [opts EXCEPT !.currentLoop = fr.prevLoop],
         blocks |-> b7, start |-> fr.condStart, end |-> end,
         branchBlock |-> branchBlock, stepStart |-> stepStart, stepEnd |-> stepStart]

\* ------------------------------------------------------------------------
\* If
\* ------------------------------------------------------------------------
\* a branch of n expressions without control flow, lowered as a Seq: n blocks
\* in a chain, the first at index first
Chain(first, n) ==
    [k \in 1..n |-> [TealSimpleBlock(1) EXCEPT
                        !.nextBlock = IF k < n THEN first + k ELSE None]]

\* If(cond).Then(X).Else(Y).__teal__: the condition leads to a conditional
\* block, whose true block is the start of X and whose false block is the
\* start of Y, or the join block when there is no Else; the ends of X and Y
\* lead to the one join block, which is the end of the expression
IfTeal(blks, thenLen, elseLen) ==
    LET cond == Len(blks) + 1
        br == cond + 1
        thenStart == br + 1
        thenEnd == br + thenLen
        join == thenEnd + 1
        elseStart == IF elseLen = 0 THEN None ELSE join + 1
        elseEnd == IF elseLen = 0 THEN None ELSE join + elseLen
        b1 == blks \o <<[TealSimpleBlock(1) EXCEPT !.nextBlock = br],
                         TealConditionalBlock(thenStart,
                                              IF elseLen = 0 THEN join ELSE elseStart)>>
        b2 == b1 \o Chain(thenStart, thenLen) \o <<TealSimpleBlock(0)>>
        b3 == setNextBlock(b2, thenEnd, join)
        b4 == IF elseLen = 0 THEN b3
              ELSE setNextBlock(b3 \o Chain(elseStart, elseLen), elseEnd, join)
    IN  [blocks |-> b4, start |-> cond, end |-> join,
         record |-> [cond |-> cond, br |-> br, thenStart |-> thenStart,
                     thenEnd |-> thenEnd, elseStart |-> elseStart,
                     elseEnd |-> elseEnd, join |-> join]]

\* ------------------------------------------------------------------------
\* Linearization of the block graph
\* ------------------------------------------------------------------------
\* TealBlock.getOutgoing: a conditional block leads to its true and its false
\* block, a simple block to its next block, if it has one
getOutgoing(blks, b) ==
    IF blks[b].kind = "cond"
    THEN <<blks[b].trueBlock, blks[b].falseBlock>>
    ELSE IF blks[b].nextBlock = None THEN <<>> ELSE <<blks[b].nextBlock>>

RECURSIVE Visit_TrueFirst(_, _, _)
\* a walk that visits the true branch of a conditional block before its
\* false branch
Visit_TrueFirst(blks, S, order) ==
    IF S = <<>> THEN order
    ELSE LET n == S[1]
             rest == SubSeq(S, 2, Len(S))
         IN  IF n \in Range(order)
             THEN Visit_TrueFirst(blks, rest, order)
             ELSE Visit_TrueFirst(blks, getOutgoing(blks, n) \o rest, Append(order, n))

RECURSIVE Visit(_, _, _)
\* the walk over the graph with a stack S of blocks still to visit: the block
\* pushed last is visited first, so the false branch of a conditional block
\* comes before its true branch; a block reached again is not visited again
Visit(blks, S, order) ==
    IF S = <<>> THEN order
    ELSE LET n == S[Len(S)]
             rest == SubSeq(S, 1, Len(S) - 1)
         IN  IF n \in Range(order)
             THEN Visit(blks, rest, order)
             ELSE Visit(blks, rest \o getOutgoing(blks, n), Append(order, n))

\* block.incoming, over the blocks reachable from the start
Incoming(blks, order, b) ==
    {p \in Range(order) : b \in Range(getOutgoing(blks, p))}

RECURSIVE EndChain(_, _, _)
\* the blocks that form one straight line with the end block: a block is
\* joined with its only predecessor when it is that block's only successor
EndChain(blks, order, chain) ==
    LET inc == Incoming(blks, order, chain[1])
    IN  IF Cardinality(inc) = 1
        THEN LET p == CHOOSE q \in inc : TRUE
             IN  IF getOutgoing(blks, p) = <<chain[1]>> /\ p \notin Range(chain)
                 THEN EndChain(blks, order, <<p>> \o chain)
                 ELSE chain
        ELSE chain

\* the order the blocks are laid out in: the order of the walk, with the
\* end of the program moved to the last place
sortBlocks(blks, start, end) ==
    LET order == Visit(blks, <<start>>, <<>>)
        chain == EndChain(blks, order, <<end>>)
    IN  IF end \notin Range(order) THEN <<>>
        ELSE SelectSeq(order, LAMBDA b : b \notin Range(chain)) \o chain

\* the place of block b in the order
IndexOf(order, b) ==
    CHOOSE i \in 1..Len(order) : order[i] = b

\* the branch that ends block order[i]: none when the block that follows is
\* laid out next; for a conditional block one branch on the condition and
\* a fall through, or two branches
BranchOps(blks, order, i) ==
    LET b == order[i]
    IN  IF blks[b].kind = "cond"
        THEN IF IndexOf(order, blks[b].falseBlock) = i + 1
             THEN <<[kind |-> "bnz", block |-> b, target |-> blks[b].trueBlock]>>
             ELSE IF IndexOf(order, blks[b].trueBlock) = i + 1
             THEN <<[kind |-> "bz", block |-> b, target |-> blks[b].falseBlock]>>
             ELSE <<[kind |-> "bnz", block |-> b, target |-> blks[b].trueBlock],
                    [kind |-> "b", block |-> b, target |-> blks[b].falseBlock]>>
        ELSE IF blks[b].nextBlock = None \/ IndexOf(order, blks[b].nextBlock) = i + 1
             THEN <<>>
             ELSE <<[kind |-> "b", block |-> b, target |-> blks[b].nextBlock]>>

RECURSIVE Emit(_, _, _, _)
\* the instruction stream of the blocks order[i..]: for each block its
\* label, if a branch refers to it, its operations and its branch
Emit(blks, order, refs, i) ==
    IF i > Len(order) THEN <<>>
    ELSE LET b == order[i]
             label == IF b \in refs
                      THEN <<[kind |-> "label", block |-> b, target |-> b]>> ELSE <<>>
             ops == IF blks[b].ops > 0
                    THEN <<[kind |-> "ops", block |-> b, target |-> None]>> ELSE <<>>
         IN  label \o ops \o BranchOps(blks, order, i) \o Emit(blks, order, refs, i + 1)

\* the linearizer: the blocks are sorted and flattened into one instruction
\* stream; without a path from the start to the end there is no program
flattenBlocks(blks, start, end) ==
    LET order == sortBlocks(blks, start, end)
        refs == {t \in Range(order) :
                    \E i \in 1..Len(order) :
                        \E k \in 1..Len(BranchOps(blks, order, i)) :
                            BranchOps(blks, order, i)[k].target = t}
    IN  IF order = <<>>
        THEN <<[kind |-> "error", block |-> None, target |-> None]>>
        ELSE Emit(blks, order, refs, 1)

\* ------------------------------------------------------------------------
\* The lowering of one program
\* ------------------------------------------------------------------------
Top == Len(stack)

TopFrame == stack[Top]

NoCall == [op |-> "none", loop |-> None, doCalled |-> FALSE, n |-> 0,
           before |-> <<>>, after |-> <<>>, start |-> None, end |-> None]

NoLoop == [parent |-> None, done |-> FALSE, condStart |-> None, condEnd |-> None,
           doStart |-> None, doEnd |-> None, end |-> None, branchBlock |-> None,
           step |-> FALSE, stepStart |-> None, stepEnd |-> None,
           retStart |-> None, retEnd |-> None, firstNew |-> None]

LoopInit ==
    /\ blocks = <<>>
    /\ options = [currentLoop |-> None, breakBlocks |-> <<>>, continueBlocks |-> <<>>]
    /\ stack = <<[loop |-> None, condStart |-> None, condEnd |-> None, prevLoop |-> None,
                  step |-> FALSE, start |-> None, end |-> None,
                  entry |-> [currentLoop |-> None, breakBlocks |-> <<>>,
                             continueBlocks |-> <<>>]]>>
    /\ loops = <<>>
    /\ breakReg = {}
    /\ contReg = {}
    /\ err = "none"
    /\ nodes = 0
    /\ last = NoCall
    /\ ifs = <<>>
    /\ code = <<>>

\* expressions are lowered until the graph is handed to the linearizer
CanLower ==
    /\ err = "none"
    /\ nodes < MaxNodes
    /\ code = <<>>

\* an expression without control flow (Pop(Int(6)), App.globalPut(...), ...)
LowerPlain ==
    /\ CanLower
    /\ LET b == Len(blocks) + 1
           st == Stitch(Append(blocks, TealSimpleBlock(1)), TopFrame, b, b)
       IN  /\ blocks' = st.blocks
           /\ stack' = [stack EXCEPT ![Top] = st.frame]
    /\ nodes' = nodes + 1
    /\ last' = [NoCall EXCEPT !.op = "Plain"]
    /\ UNCHANGED <<options, loops, breakReg, contReg, err, ifs, code>>

LowerBreak ==
    /\ CanLower
    /\ LET r == BreakTeal(options, blocks)
           st == Stitch(r.blocks, TopFrame, r.start, r.end)
       IN  /\ err' = r.err
           /\ options' = r.options
           /\ last' = [NoCall EXCEPT !.op = "Break", !.loop = options.currentLoop,
                                     !.n = Len(blocks),
                                     !.before = options.breakBlocks,
                                     !.after = r.options.breakBlocks,
                                     !.start = r.start, !.end = r.end]
           /\ IF r.err = "none"
              THEN /\ blocks' = st.blocks
                   /\ stack' = [stack EXCEPT ![Top] = st.frame]
                   /\ breakReg' = breakReg \cup {<<r.start, options.currentLoop>>}
              ELSE /\ blocks' = r.blocks
                   /\ UNCHANGED <<stack, breakReg>>
    /\ nodes' = nodes + 1
    /\ UNCHANGED <<loops, contReg, ifs, code>>

LowerContinue ==
    /\ CanLower
    /\ LET r == ContinueTeal(options, blocks)
           st == Stitch(r.blocks, TopFrame, r.start, r.end)
       IN  /\ err' = r.err
           /\ options' = r.options
           /\ last' = [NoCall EXCEPT !.op = "Continue", !.loop = options.currentLoop,
                                     !.n = Len(blocks),
                                     !.before = options.continueBlocks,
                                     !.after = r.options.continueBlocks,
                                     !.start = r.start, !.end = r.end]
           /\ IF r.err = "none"
              THEN /\ blocks' = st.blocks
                   /\ stack' = [stack EXCEPT ![Top] = st.frame]
                   /\ contReg' = contReg \cup {<<r.start, options.currentLoop>>}
              ELSE /\ blocks' = r.blocks
                   /\ UNCHANGED <<stack, contReg>>
    /\ nodes' = nodes + 1
    /\ UNCHANGED <<loops, breakReg, ifs, code>>

\* While.__teal__ is entered; it raises at once when the While has no doBlock
LowerWhileEnter ==
    /\ CanLower
    /\ Top <= MaxDepth
    /\ \E doCalled \in BOOLEAN, doArg \in DoArgs, condLen \in 1..2, step \in BOOLEAN :
         LET doBlock == WhileDoBlock(doCalled, doArg)
             self == Len(loops) + 1
             r == WhileTealEnter(options, blocks, self, condLen, step)
         IN  /\ last' = [NoCall EXCEPT !.op = "While", !.loop = self, !.doCalled = doCalled,
                                       !.n = Len(blocks), !.before = options,
                                       !.after = IF HasNoDoBlock(doBlock)
                                                 THEN options ELSE r.options]
             /\ IF HasNoDoBlock(doBlock)
                THEN /\ err' = "WhileNoDoBlock"
                     /\ UNCHANGED <<blocks, options, stack, loops>>
                ELSE /\ err' = "none"
                     /\ blocks' = r.blocks
                     /\ options' = r.options
                     /\ stack' = Append(stack, r.frame)
                     /\ loops' = Append(loops,
                            [NoLoop EXCEPT !.parent = options.currentLoop,
                                           !.condStart = r.frame.condStart,
                                           !.condEnd = r.frame.condEnd,
                                           !.step = step])
    /\ nodes' = nodes + 1
    /\ UNCHANGED <<breakReg, contReg, ifs, code>>

\* the doBlock has been lowered; While.__teal__ runs to its return and the
\* enclosing Seq stitches the returned pair
LowerWhileExit ==
    /\ err = "none"
    /\ code = <<>>
    /\ Top > 1
    /\ TopFrame.start # None
    /\ LET fr == TopFrame
           r == WhileTealExit(options, blocks, fr)
           st == Stitch(r.blocks, stack[Top - 1], r.start, r.end)
       IN  /\ options' = r.options
           /\ blocks' = st.blocks
           /\ stack' = [SubSeq(stack, 1, Top - 1) EXCEPT ![Top - 1] = st.frame]
           /\ loops' = [loops EXCEPT ![fr.loop] =
                  [@ EXCEPT !.done = TRUE, !.doStart = fr.start, !.doEnd = fr.end,
                            !.end = r.end, !.branchBlock = r.branchBlock,
                            !.stepStart = r.stepStart, !.stepEnd = r.stepEnd,
                            !.retStart = r.start, !.retEnd = r.end,
                            !.firstNew = Len(blocks) + 1]]
           /\ last' = [NoCall EXCEPT !.op = "WhileDone", !.loop = fr.loop,
                                     !.doCalled = TRUE,
                                     !.before = fr.entry, !.after = r.options]
    /\ UNCHANGED <<breakReg, contReg, err, nodes, ifs, code>>

\* If(cond).Then(X) or If(cond).Then(X).Else(Y), X and Y without control flow
LowerIf ==
    /\ CanLower
    /\ Len(ifs) < MaxIfs
    /\ \E thenLen \in 1..MaxBranch, elseLen \in 0..MaxBranch :
         LET r == IfTeal(blocks, thenLen, elseLen)
             st == Stitch(r.blocks, TopFrame, r.start, r.end)
         IN  /\ blocks' = st.blocks
             /\ stack' = [stack EXCEPT ![Top] = st.frame]
             /\ ifs' = Append(ifs, r.record)
             /\ last' = [NoCall EXCEPT !.op = "If", !.n = Len(blocks),
                                       !.start = r.start, !.end = r.end]
    /\ nodes' = nodes + 1
    /\ UNCHANGED <<options, loops, breakReg, contReg, err, code>>

\* the program is complete: the graph from the start to the end of the
\* top-level Seq is linearized
Linearize ==
    /\ err = "none"
    /\ code = <<>>
    /\ Top = 1
    /\ TopFrame.start # None
    /\ code' = flattenBlocks(blocks, TopFrame.start, TopFrame.end)
    /\ UNCHANGED <<blocks, options, stack, loops, breakReg, contReg, err, nodes, last, ifs>>

\* ------------------------------------------------------------------------
\* Properties of the loop lowering
\* ------------------------------------------------------------------------
DoneLoops == {i \in 1..Len(loops) : loops[i].done}

\* C1: a Break lowered while options.currentLoop is None fails with a compile
\* error and the pending break list is the one it was before the call; no
\* block is ever registered for "no loop".
C1_BreakOutsideLoopFails ==
    /\ (last.op = "Break" /\ last.loop = None) =>
            /\ err = "BreakOutsideLoop"
            /\ last.after = last.before
            /\ options.breakBlocks = last.before
    /\ \A p \in breakReg : p[2] # None

\* a Break has been lowered outside every loop, after a loop left a block pending
W_C1 ==
    /\ err = "BreakOutsideLoop"
    /\ last.op = "Break"
    /\ last.before # <<>>

\* C2: once a While has been lowered, every break block registered while it
\* was the current loop has the loop's exit block `end` as its next block.
C2_BreaksTargetEnd ==
    \A p \in breakReg :
        loops[p[2]].done => blocks[p[1]].nextBlock = loops[p[2]].end

\* C3: once a While has been lowered, every continue block registered while
\* it was the current loop has the loop's condStart as its next block.
C3_ContinuesTargetCondStart ==
    \A p \in contReg :
        loops[p[2]].done => blocks[p[1]].nextBlock = loops[p[2]].condStart

\* C4: when a While is lowered inside the body of another and both are done,
\* every break block of the inner loop leads to the inner loop's exit and
\* none leads to the outer loop's exit.
C4_InnerBreaksStayInner ==
    \A p \in breakReg :
        LET inner == loops[p[2]]
        IN  (inner.done /\ inner.parent # None /\ loops[inner.parent].done) =>
                /\ blocks[p[1]].nextBlock = inner.end
                /\ blocks[p[1]].nextBlock # loops[inner.parent].end

\* C5: when While.__teal__ returns, currentLoop, breakBlocks and
\* continueBlocks are what they were when it was called.
C5_LoopFieldsRestored ==
    last.op = "WhileDone" => last.after = last.before

\* C6: a While whose Do was never called fails with the no-doBlock error
\* before anything is lowered and with the loop fields of the options
\* untouched; a While that was given a body by Do does not raise that error.
C6_NoDoBlockError ==
    last.op = "While" =>
        /\ ~last.doCalled =>
                /\ err = "WhileNoDoBlock"
                /\ last.after = last.before
                /\ Len(blocks) = last.n
        /\ last.doCalled => err # "WhileNoDoBlock"

\* C7: a lowered While returned (condStart, end); end is an empty simple block
\* created by this call, and condEnd leads to one conditional block whose
\* true branch is doStart and whose false branch is end.
C7_WhileShape ==
    \A i \in DoneLoops :
        LET L == loops[i]
        IN  /\ L.retStart = L.condStart
            /\ L.retEnd = L.end
            /\ L.end >= L.firstNew
            /\ blocks[L.end].kind = "simple"
            /\ blocks[L.end].ops = 0
            /\ L.branchBlock # None
            /\ blocks[L.condEnd].nextBlock = L.branchBlock
            /\ blocks[L.branchBlock].kind = "cond"
            /\ blocks[L.branchBlock].trueBlock = L.doStart
            /\ blocks[L.branchBlock].falseBlock = L.end

\* a loop whose condition spans two blocks and whose body holds a nested,
\* lowered loop has been lowered
W_C7 ==
    \E i \in DoneLoops :
        /\ loops[i].condEnd # loops[i].condStart
        /\ \E j \in DoneLoops : loops[j].parent = i

\* C21: after a While has been lowered the end of its body loops back to
\* the start of its condition: doEnd's next is condStart without a step
\* expression; with one, doEnd's next is stepStart and stepEnd's next is
\* condStart.
C21_BodyLoopsBack ==
    \A i \in DoneLoops :
        LET L == loops[i]
        IN  IF L.step
            THEN /\ blocks[L.doEnd].nextBlock = L.stepStart
                 /\ blocks[L.stepEnd].nextBlock = L.condStart
            ELSE blocks[L.doEnd].nextBlock = L.condStart

\* C22: in a lowered loop with a step expression every continue block of
\* the loop leads to the step expression, which leads to the condition, and
\* every break block of the loop leads to the loop's exit, not to the step.
C22_ContinueRunsStep ==
    /\ \A p \in contReg :
           (loops[p[2]].done /\ loops[p[2]].step) =>
               /\ blocks[p[1]].nextBlock = loops[p[2]].stepStart
               /\ blocks[loops[p[2]].stepEnd].nextBlock = loops[p[2]].condStart
    /\ \A p \in breakReg :
           (loops[p[2]].done /\ loops[p[2]].step) =>
               /\ blocks[p[1]].nextBlock = loops[p[2]].end
               /\ blocks[p[1]].nextBlock # loops[p[2]].stepStart

\* C20: a Break lowered inside a loop creates one empty block, appends it to
\* the break list of the options and returns that block as both the start
\* and the end of the expression.
C20_BreakOneBlock ==
    (last.op = "Break" /\ last.loop # None) =>
        /\ Len(blocks) = last.n + 1
        /\ last.start = last.end
        /\ last.after = Append(last.before, last.start)
        /\ blocks[last.start] = TealSimpleBlock(0)

\* the layout of the linearized program
Order ==
    sortBlocks(blocks, TopFrame.start, TopFrame.end)

Linearized ==
    /\ code # <<>>
    /\ Order # <<>>

\* the places of the instructions of the given kind that block b ends with
\* and that refer to block t
Places(kind, b, t) ==
    {k \in 1..Len(code) : code[k] = [kind |-> kind, block |-> b, target |-> t]}

\* control leaves block b for block t: by a branch, or because t is laid out
\* right after b
Flows(b, t) ==
    \/ Places("b", b, t) # {}
    \/ /\ b \in Range(Order) /\ t \in Range(Order)
       /\ IndexOf(Order, t) = IndexOf(Order, b) + 1
       /\ blocks[b].kind = "simple" /\ blocks[b].nextBlock = t

\* C12: in the linearized program every While has a labelled condition, a
\* conditional branch to its exit label taken when the condition is false,
\* an unconditional branch back to the condition's label placed before the
\* exit label, and each of its breaks leads to the exit label.
C12_WhileLinearized ==
    Linearized =>
        \A i \in DoneLoops :
            LET L == loops[i]
                back == IF L.step THEN L.stepEnd ELSE L.doEnd
            IN  L.condStart \in Range(Order) =>
                    /\ Places("label", L.condStart, L.condStart) # {}
                    /\ Places("label", L.end, L.end) # {}
                    /\ Places("bz", L.branchBlock, L.end) # {}
                    /\ \E k \in Places("b", back, L.condStart) :
                           \A e \in Places("label", L.end, L.end) : k < e
                    /\ \A p \in breakReg : p[2] = i => Flows(p[1], L.end)

\* ------------------------------------------------------------------------
\* Properties of the If lowering
\* ------------------------------------------------------------------------
\* the places in the instruction stream of the operations of blocks a..b
OpsAt(a, b) ==
    {k \in 1..Len(code) : code[k].kind = "ops" /\ code[k].block \in a..b}

\* every place of P comes before every place of Q, and neither is empty
Before(P, Q) ==
    /\ P # {} /\ Q # {}
    /\ \A p \in P, q \in Q : p < q

\* the Ifs with an Else
WithElse == {i \in 1..Len(ifs) : ifs[i].elseStart # None}

\* no label is emitted twice and no block has its operations emitted twice
NothingTwice ==
    \A j, k \in 1..Len(code) :
        (j # k /\ code[j].kind \in {"label", "ops"} /\ code[j].kind = code[k].kind)
            => code[j].block # code[k].block

NumThreads == 2
\* compile_program calls each thread makes, one after the other
MaxCalls == 2
\* add_method_handler calls made on the router before it is compiled
MaxRegs == 2
\* number of distinct values of the 4-byte method selector
SelectorSpace == 2

Threads == 1..NumThreads

\* CallConfig
NEVER == 0
CALL == 1
CREATE == 2
ALL == 3

\* MethodConfig as <<no_op, opt_in, close_out, update_application,
\* delete_application>>; clear_state is always NEVER
MethodConfig(no_op, opt_in, close_out, update_application, delete_application) ==
    <<no_op, opt_in, close_out, update_application, delete_application>>

\* MethodConfig.is_never
is_never(cfg) ==
    \A i \in 1..Len(cfg) : cfg[i] = NEVER

\* MethodConfig.approval_cond: the int 0, the int 1, or the Or over the
\* (on-completion, config) pairs that are not NEVER
approval_cond(cfg) ==
    IF \A i \in 1..5 : cfg[i] = NEVER THEN [int |-> 0, Or |-> <<>>]
    ELSE IF \A i \in 1..5 : cfg[i] = ALL THEN [int |-> 1, Or |-> <<>>]
    ELSE [int |-> -1,
          Or |-> SelectSeq([i \in 1..5 |-> <<i, cfg[i]>>], LAMBDA q : q[2] # NEVER)]

\* encoding.checksum(bytes(method_signature, "utf-8"))[:4]: a hash cut to a
\* fixed width, so two signatures may share a selector
method_selector(sig) ==
    sig % SelectorSpace

\* the ABIReturnSubroutine with signature sig: its number of arguments and
\* whether it returns a value
argument_count(sig) == sig % 3

is_void(sig) == sig % 2 = 0

\* pyteal.config.METHOD_ARG_NUM_CUTOFF
METHOD_ARG_NUM_CUTOFF == 15

\* the positions of the arguments of kind k ("abi" or "txn") in a signature
ArgsOfKind(args, k) ==
    SelectSeq([i \in 1..Len(args) |-> i], LAMBDA i : args[i] = k)

\* a wrap_handler that cuts the argument list one position too late
decode_instructions_LateCut(args) ==
    LET app == ArgsOfKind(args, "abi")
        txn == ArgsOfKind(args, "txn")
        tuplify == Len(app) > METHOD_ARG_NUM_CUTOFF
        tupled == IF tuplify THEN SubSeq(app, METHOD_ARG_NUM_CUTOFF + 1, Len(app)) ELSE <<>>
        app_arg_vals == IF tuplify THEN SubSeq(app, 1, METHOD_ARG_NUM_CUTOFF - 1) ELSE app
    IN  [k \in 1..Len(app_arg_vals) |->
            [kind |-> "decode", arg |-> app_arg_vals[k], from |-> k]]
        \o (IF tuplify
            THEN <<[kind |-> "decode_tuple", arg |-> tupled,
                    from |-> Len(app_arg_vals) + 1]>>
            ELSE <<>>)
        \o [k \in 1..Len(txn) |->
               [kind |-> "set_index", arg |-> txn[k], from |-> Len(txn) - (k - 1)]]
        \o [k \in 1..Len(tupled) |->
               [kind |-> "store_into", arg |-> tupled[k], from |-> k - 1]]

\* decode_instructions in wrap_handler(True, handler): the arguments that
\* are not transactions are decoded from Txn.application_args[1], [2], ...;
\* beyond the cutoff the arguments from the cutoff-th on are decoded as one
\* tuple and stored into their values one by one; a transaction argument is
\* given its index in the group, relative to the current transaction
decode_instructions(args) ==
    LET app == ArgsOfKind(args, "abi")
        txn == ArgsOfKind(args, "txn")
        tuplify == Len(app) > METHOD_ARG_NUM_CUTOFF
        tupled == IF tuplify THEN SubSeq(app, METHOD_ARG_NUM_CUTOFF, Len(app)) ELSE <<>>
        app_arg_vals == IF tuplify THEN SubSeq(app, 1, METHOD_ARG_NUM_CUTOFF - 1) ELSE app
    IN  [k \in 1..Len(app_arg_vals) |->
            [kind |-> "decode", arg |-> app_arg_vals[k], from |-> k]]
        \o (IF tuplify
            THEN <<[kind |-> "decode_tuple", arg |-> tupled,
                    from |-> Len(app_arg_vals) + 1]>>
            ELSE <<>>)
        \o [k \in 1..Len(txn) |->
               [kind |-> "set_index", arg |-> txn[k], from |-> Len(txn) - (k - 1)]]
        \o [k \in 1..Len(tupled) |->
               [kind |-> "store_into", arg |-> tupled[k], from |-> k - 1]]

\* a step of a branch that is not about one argument
Step(kind) ==
    [kind |-> kind, arg |-> None, from |-> None]

\* ASTBuilder.wrap_handler(True, handler): the decoding, the call of the
\* subroutine with all the argument values, for a method that returns a
\* value the storing of the returned value and its logging, then Approve
wrap_handler(args, void) ==
    decode_instructions(args)
    \o (IF void
        THEN <<Step("call")>>
        ELSE <<Step("call"), Step("store_output"), Step("log")>>)
    \o <<Step("approve")>>

\* the arguments of the ABIReturnSubroutine with signature sig
args_of(sig) ==
    [k \in 1..argument_count(sig) |-> "abi"]

\* an add_method_to_ast that asserts the condition after the handler
method_act_AssertLast(sig, cond) ==
    IF cond.int = 1
    THEN wrap_handler(args_of(sig), is_void(sig))
    ELSE wrap_handler(args_of(sig), is_void(sig)) \o <<Step("assert")>>

\* the branch add_method_to_ast builds: Seq(Assert(cond), wrap_handler(...))
\* for a condition that is an expression, wrap_handler(...) alone for 1
method_act(sig, cond) ==
    IF cond.int = 1
    THEN wrap_handler(args_of(sig), is_void(sig))
    ELSE <<Step("assert")>> \o wrap_handler(args_of(sig), is_void(sig))

\* bare_calls.approval_construction() under Txn.application_args.length() == 0
BareBranch ==
    [condition |-> "NumAppArgs==0", cond |-> [int |-> 1, Or |-> <<>>], method |-> None,
     vars |-> 0]

\* ASTBuilder.wrap_handler(True, handler) under its walk-in condition: one
\* scratch variable per argument and one for the returned value
MethodBranch(sig, cond) ==
    [condition |-> "ApplicationArgs[0]==selector", cond |-> cond, method |-> sig,
     vars |-> argument_count(sig) + (IF is_void(sig) THEN 0 ELSE 1),
     act |-> method_act(sig, cond)]

\* an add_method_to_ast that puts the new branch in front of the others
add_method_to_ast_Prepend(cnb, sig, cond) ==
    IF cond.int = 0 THEN cnb ELSE <<MethodBranch(sig, cond)>> \o cnb

\* ASTBuilder.add_method_to_ast
add_method_to_ast(cnb, sig, cond) ==
    IF cond.int = 0 THEN cnb ELSE Append(cnb, MethodBranch(sig, cond))

\* Router.__init__
RouterNew(bare, clear) ==
    [conditions_n_branches |-> IF bare THEN <<BareBranch>> ELSE <<>>,
     clear_state |-> IF clear = "None"
                     THEN [kind |-> "Reject", branches |-> <<>>]
                     ELSE [kind |-> "Seq",
                           branches |-> <<[condition |-> "clear state call",
                                           cond |-> [int |-> 1, Or |-> <<>>],
                                           method |-> None, vars |-> 1]>>],
     methods |-> <<>>,
     method_sig_to_selector |-> {},
     method_selector_to_sig |-> {}]

\* the ABIReturnSubroutines a caller registers, by signature
NumSigs == 3

Sigs == 1..NumSigs

\* handler.is_abi_routable(): the subroutine with the last signature has an
\* argument that is not an ABI value
is_abi_routable(sig) ==
    sig < NumSigs

\* the checks at the head of wrap_handler(True, handler), which
\* add_method_to_ast runs before it appends the branch: the error raised,
\* if any
wrap_handler_check(sig) ==
    IF ~is_abi_routable(sig) THEN "not routable" ELSE "none"

\* an add_method_handler that records the method before it validates it
add_method_handler_AppendFirst(r, sig, method_config) ==
    LET cfg == IF method_config = "None"
               THEN MethodConfig(CALL, NEVER, NEVER, NEVER, NEVER)
               ELSE method_config
        sel == method_selector(sig)
        r1 == [r EXCEPT !.methods = Append(@, sig)]
    IN  IF is_never(cfg)
        THEN [err |-> "never executed", router |-> r1]
        ELSE IF \E p \in r.method_sig_to_selector : p[1] = sig
        THEN [err |-> "re-registering", router |-> r1]
        ELSE IF \E p \in r.method_selector_to_sig : p[1] = sel
        THEN [err |-> "hash collision", router |-> r1]
        ELSE LET r2 == [r1 EXCEPT
                           !.method_sig_to_selector = @ \cup {<<sig, sel>>},
                           !.method_selector_to_sig = @ \cup {<<sel, sig>>}]
                 w == wrap_handler_check(sig)
             IN  IF w # "none"
                 THEN [err |-> w, router |-> r2]
                 ELSE [err |-> "none",
                       router |-> [r2 EXCEPT
                           !.conditions_n_branches =
                               add_method_to_ast(@, sig, approval_cond(cfg))]]

\* Router.add_method_handler
add_method_handler(r, sig, method_config) ==
    LET cfg == IF method_config = "None"
               THEN MethodConfig(CALL, NEVER, NEVER, NEVER, NEVER)
               ELSE method_config
        sel == method_selector(sig)
    IN  IF is_never(cfg)
        THEN [err |-> "never executed", router |-> r]
        ELSE IF \E p \in r.method_sig_to_selector : p[1] = sig
        THEN [err |-> "re-registering", router |-> r]
        ELSE IF \E p \in r.method_selector_to_sig : p[1] = sel
        THEN [err |-> "hash collision", router |-> r]
        ELSE LET r2 == [r EXCEPT
                           !.methods = Append(@, sig),
                           !.method_sig_to_selector = @ \cup {<<sig, sel>>},
                           !.method_selector_to_sig = @ \cup {<<sel, sig>>}]
                 w == wrap_handler_check(sig)
             IN  IF w # "none"
                 THEN [err |-> w, router |-> r2]
                 ELSE [err |-> "none",
                       router |-> [r2 EXCEPT
                           !.conditions_n_branches =
                               add_method_to_ast(@, sig, approval_cond(cfg))]]

\* the method_config the k-th method is registered with: an explicit
\* MethodConfig(no_op=CALL, opt_in=CALL), or none
method_config_of(k) ==
    IF k % 2 = 1 THEN MethodConfig(CALL, CALL, NEVER, NEVER, NEVER) ELSE "None"

RECURSIVE Registered(_, _)
\* the router after router.add_method_handler for the methods 1..n, in order
Registered(r, n) ==
    IF n = 0 THEN r
    ELSE add_method_handler(Registered(r, n - 1), n, method_config_of(n)).router

\* ------------------------------------------------------------------------
\* Router: compilation
\* ------------------------------------------------------------------------
\* ASTBuilder.program_construction
program_construction(cnb) ==
    IF cnb = <<>>
    THEN [kind |-> "Reject", branches |-> <<>>]
    ELSE [kind |-> "Cond", branches |-> cnb]

\* Router.contract_construct
contract_construct(r) ==
    [name |-> "router", methods |-> r.methods]

\* Router.build_program
build_program(r) ==
    [ap |-> program_construction(r.conditions_n_branches),
     csp |-> r.clear_state,
     contract |-> contract_construct(r)]

\* the reference a new object gets: that of a released object, or a new one
FreshRef(h) ==
    IF \E i \in 1..Len(h) : ~h[i].live
    THEN CHOOSE i \in 1..Len(h) : ~h[i].live /\ \A j \in 1..(i - 1) : h[j].live
    ELSE Len(h) + 1

\* a get_compilation whose Compilation goes on counting scratch slots where
\* the object that had its place before stopped
get_compilation_StaleSlots(inp, program, h) ==
    [ref |-> FreshRef(h),
     obj |-> [ast |-> program, version |-> inp.version,
              assemble_constants |-> inp.assemble_constants,
              optimize |-> inp.optimize_opts, live |-> TRUE,
              pos |-> 0,
              nextSlot |-> IF FreshRef(h) <= Len(h) THEN h[FreshRef(h)].nextSlot ELSE 0,
              lines |-> <<>>]]

\* a get_compilation that hands every caller the one Compilation object
get_compilation_Singleton(inp, program, h) ==
    [ref |-> 1,
     obj |-> [ast |-> program, version |-> inp.version,
              assemble_constants |-> inp.assemble_constants,
              optimize |-> inp.optimize_opts, live |-> TRUE,
              pos |-> 0, nextSlot |-> 0, lines |-> <<>>]]

\* _RouterCompileInput.get_compilation: a new Compilation object, with its
\* own slot counter, for every program of every call
get_compilation(inp, program, h) ==
    [ref |-> FreshRef(h),
     obj |-> [ast |-> program, version |-> inp.version,
              assemble_constants |-> inp.assemble_constants,
              optimize |-> inp.optimize_opts, live |-> TRUE,
              pos |-> 0, nextSlot |-> 0, lines |-> <<>>]]

\* Compilation.compile, one branch of the program at a time: the variables
\* of the branch get the next free scratch slots of this compilation
CompileStep(c) ==
    LET b == c.ast.branches[c.pos + 1]
        slots == [k \in 1..b.vars |-> c.nextSlot + k - 1]
    IN  [c EXCEPT !.pos = @ + 1,
                  !.nextSlot = @ + b.vars,
                  !.lines = Append(@, [condition |-> b.condition, cond |-> b.cond,
                                       method |-> b.method, slots |-> slots])]

CompileDone(c) ==
    c.pos >= Len(c.ast.branches)

\* the TEAL text of a finished compilation
Teal(c) ==
    [version |-> c.version, assemble_constants |-> c.assemble_constants,
     kind |-> c.ast.kind, lines |-> c.lines]

RECURSIVE CompileAll(_)
\* Compilation.compile run from start to end without interruption
CompileAll(c) ==
    IF CompileDone(c) THEN Teal(c) ELSE CompileAll(CompileStep(c))

\* Router.compile_program run alone: the reference every call is compared to
SequentialOutput(r, inp) ==
    LET b == build_program(r)
    IN  [approval_teal |-> CompileAll(get_compilation(inp, b.ap, <<>>).obj),
         clear_teal |-> CompileAll(get_compilation(inp, b.csp, <<>>).obj),
         abi_contract |-> b.contract]

\* obj = Compilation(...): the reference now names the object
Store(h, ref, obj) ==
    IF ref <= Len(h) THEN [h EXCEPT ![ref] = obj] ELSE Append(h, obj)

\* the temporary Compilation of `get_compilation(...).compile(...)` is
\* unreferenced once compile has returned
Release(h, ref) ==
    [h EXCEPT ![ref].live = FALSE]

\* the version compile_program is called with
Versions == {6}

\* no call of the Router API made yet
NoReg == [op |-> "none", calls |-> 0, sig |-> 0, given |-> <<>>, config |-> <<>>,
          err |-> "none", before |-> <<>>, result |-> <<>>]

NoFrame == [ap |-> <<>>, csp |-> <<>>, contract |-> <<>>, ref |-> None, abundle |-> <<>>]

RouterInit ==
    /\ \E bare \in BOOLEAN, clear \in {"None", "Expr"}, n \in 0..MaxRegs :
         router = Registered(RouterNew(bare, clear), n)
    /\ \E v \in Versions :
         input = [version |-> v, assemble_constants |-> FALSE, optimize_opts |-> "scratch_slots"]
    /\ heap = <<>>
    /\ pc = [t \in Threads |-> "idle"]
    /\ frame = [t \in Threads |-> NoFrame]
    /\ outputs = [t \in Threads |-> <<>>]
    /\ reg = NoReg

\* compile_program is called: _build_impl builds the programs and creates
\* the Compilation of the approval program
CallCompileProgram(t) ==
    /\ pc[t] = "idle"
    /\ Len(outputs[t]) < MaxCalls
    /\ LET b == build_program(router)
           c == get_compilation(input, b.ap, heap)
       IN  /\ heap' = Store(heap, c.ref, c.obj)
           /\ frame' = [frame EXCEPT ![t] = [ap |-> b.ap, csp |-> b.csp,
                                             contract |-> b.contract, ref |-> c.ref,
                                             abundle |-> <<>>]]
    /\ pc' = [pc EXCEPT ![t] = "approval"]
    /\ UNCHANGED <<router, input, outputs, reg>>

\* the compilation thread t is running lowers its next branch
Compile(t) ==
    /\ pc[t] \in {"approval", "clear"}
    /\ ~CompileDone(heap[frame[t].ref])
    /\ heap' = [heap EXCEPT ![frame[t].ref] = CompileStep(@)]
    /\ UNCHANGED <<router, input, pc, frame, outputs, reg>>

\* the approval program is compiled; the Compilation of the clear-state
\* program is created
ApprovalCompiled(t) ==
    /\ pc[t] = "approval"
    /\ CompileDone(heap[frame[t].ref])
    /\ LET released == Release(heap, frame[t].ref)
           c == get_compilation(input, frame[t].csp, released)
       IN  /\ heap' = Store(released, c.ref, c.obj)
           /\ frame' = [frame EXCEPT ![t].abundle = Teal(heap[frame[t].ref]),
                                     ![t].ref = c.ref]
    /\ pc' = [pc EXCEPT ![t] = "clear"]
    /\ UNCHANGED <<router, input, outputs, reg>>

\* the clear-state program is compiled; compile_program returns
ClearCompiled(t) ==
    /\ pc[t] = "clear"
    /\ CompileDone(heap[frame[t].ref])
    /\ outputs' = [outputs EXCEPT ![t] =
           Append(@, [approval_teal |-> frame[t].abundle,
                      clear_teal |-> Teal(heap[frame[t].ref]),
                      abi_contract |-> frame[t].contract])]
    /\ frame' = [frame EXCEPT ![t] = NoFrame]
    /\ pc' = [pc EXCEPT ![t] = "idle"]
    /\ heap' = Release(heap, frame[t].ref)
    /\ UNCHANGED <<router, input, reg>>

MethodConfigs ==
    {"None",
     MethodConfig(NEVER, NEVER, NEVER, NEVER, NEVER),
     MethodConfig(ALL, ALL, ALL, ALL, ALL),
     MethodConfig(CALL, CREATE, NEVER, NEVER, NEVER)}

\* a new Router, nothing registered yet and nothing compiled
RegisterInit ==
    /\ \E bare \in BOOLEAN, clear \in {"None", "Expr"} :
         /\ router = RouterNew(bare, clear)
         /\ input = [bare_calls |-> bare, clear_state |-> clear]
    /\ heap = <<>>
    /\ pc = <<>>
    /\ frame = <<>>
    /\ outputs = <<>>
    /\ reg = NoReg

\* router.add_method_handler(method, method_config=cfg)
AddMethodHandler ==
    /\ reg.calls < MaxRegs
    /\ \E sig \in Sigs, cfg \in MethodConfigs :
         LET r == add_method_handler(router, sig, cfg)
         IN  /\ router' = r.router
             /\ reg' = [NoReg EXCEPT
                    !.op = "add_method_handler", !.calls = reg.calls + 1, !.sig = sig,
                    !.given = cfg,
                    !.config = IF cfg = "None"
                               THEN MethodConfig(CALL, NEVER, NEVER, NEVER, NEVER) ELSE cfg,
                    !.err = r.err, !.before = router]
    /\ UNCHANGED <<input, heap, pc, frame, outputs>>

\* a keyword argument that is not given (its default None)
NoArg == -1

\* none_to_never in Router.method
none_to_never(x) ==
    IF x = NoArg THEN NEVER ELSE x

\* a Router.method that lets no_op default to CALL whatever else is given
method_call_configs_NoOpCall(no_op, opt_in, close_out, update_application, delete_application) ==
    MethodConfig(IF no_op = NoArg THEN CALL ELSE no_op, none_to_never(opt_in),
                 none_to_never(close_out), none_to_never(update_application),
                 none_to_never(delete_application))

\* call_configs in Router.method: MethodConfig(no_op=CALL) when no
\* on-completion keyword is given, else every keyword with None turned
\* into NEVER
method_call_configs(no_op, opt_in, close_out, update_application, delete_application) ==
    IF /\ no_op = NoArg /\ opt_in = NoArg /\ close_out = NoArg
       /\ update_application = NoArg /\ delete_application = NoArg
    THEN MethodConfig(CALL, NEVER, NEVER, NEVER, NEVER)
    ELSE MethodConfig(none_to_never(no_op), none_to_never(opt_in),
                      none_to_never(close_out), none_to_never(update_application),
                      none_to_never(delete_application))

\* a Router.method that accepts clear_state=CallConfig.NEVER
method_clear_state_check_NeverAllowed(clear_state) ==
    IF clear_state # NoArg /\ clear_state # NEVER
    THEN "clear state from method" ELSE "none"

\* the head of Router.method: any clear_state argument is refused
method_clear_state_check(clear_state) ==
    IF clear_state # NoArg THEN "clear state from method" ELSE "none"

\* @router.method(no_op=..., opt_in=..., clear_state=...) over a function
RouterMethod ==
    /\ reg.calls < MaxRegs
    /\ \E sig \in Sigs, no_op \in {NoArg, NEVER, CALL}, opt_in \in {NoArg, CREATE},
          clear_state \in {NoArg, NEVER, CALL} :
         LET check == method_clear_state_check(clear_state)
             cfg == method_call_configs(no_op, opt_in, NoArg, NoArg, NoArg)
             r == add_method_handler(router, sig, cfg)
             call == [NoReg EXCEPT
                         !.op = "method", !.calls = reg.calls + 1, !.sig = sig,
                         !.given = [no_op |-> no_op, opt_in |-> opt_in, close_out |-> NoArg,
                                    clear_state |-> clear_state,
                                    update_application |-> NoArg,
                                    delete_application |-> NoArg],
                         !.before = router]
         IN  IF check # "none"
             THEN /\ reg' = [call EXCEPT !.err = check]
                  /\ UNCHANGED router
             ELSE /\ reg' = [call EXCEPT !.config = cfg, !.err = r.err]
                  /\ router' = r.router
    /\ UNCHANGED <<input, heap, pc, frame, outputs>>

\* the values of CallConfig
CallConfigs == {NEVER, CALL, CREATE, ALL}

\* MethodConfig.__post_init__: the error it raises, if any
MethodConfig_post_init(clear_state) ==
    IF clear_state # NEVER THEN "clear state from MethodConfig" ELSE "none"

\* OnCompleteAction.__post_init__: the error it raises, if any
OnCompleteAction_post_init(action, call_config) ==
    IF (call_config # NEVER) # (action # "None") THEN "contradicts" ELSE "none"

\* OnCompleteAction.is_empty
is_empty(oca) ==
    oca.action = "None" /\ oca.call_config = NEVER

\* the check that ends BareCallActions.__init__: the error it raises, if any
BareCallActions_init(clear_state) ==
    IF ~is_empty(clear_state) THEN "clear state from bare app call" ELSE "none"

\* MethodConfig(no_op=..., clear_state=...)
ConstructMethodConfig ==
    /\ \E no_op \in {NEVER, CALL}, clear_state \in CallConfigs :
         LET e == MethodConfig_post_init(clear_state)
         IN  reg' = [NoReg EXCEPT
                        !.op = "MethodConfig", !.calls = reg.calls,
                        !.given = [no_op |-> no_op, clear_state |-> clear_state],
                        !.err = e,
                        !.before = router,
                        !.result = IF e = "none"
                                   THEN MethodConfig(no_op, NEVER, NEVER, NEVER, NEVER)
                                   ELSE <<>>]
    /\ UNCHANGED <<router, input, heap, pc, frame, outputs>>

\* BareCallActions(clear_state=OnCompleteAction(action=..., call_config=...))
ConstructBareCallActions ==
    /\ \E action \in {"None", "Expr"}, call_config \in CallConfigs :
         LET e1 == OnCompleteAction_post_init(action, call_config)
             oca == [action |-> action, call_config |-> call_config]
             e == IF e1 # "none" THEN e1 ELSE BareCallActions_init(oca)
         IN  reg' = [NoReg EXCEPT
                        !.op = "BareCallActions", !.calls = reg.calls,
                        !.given = oca,
                        !.err = e,
                        !.before = router,
                        !.result = IF e = "none" THEN [clear_state |-> oca] ELSE <<>>]
    /\ UNCHANGED <<router, input, heap, pc, frame, outputs>>

\* _RouterCompileInput(...) with its __post_init__: annotated TEAL cannot be
\* had without a source map
RouterCompileInput(version, assemble_constants, optimize_opts, with_sourcemap, annotate_teal) ==
    [version |-> version, assemble_constants |-> assemble_constants,
     optimize_opts |-> optimize_opts, with_sourcemap |-> with_sourcemap,
     annotate_teal |-> annotate_teal,
     err |-> IF annotate_teal /\ ~with_sourcemap THEN "ValueError" ELSE "none"]

\* Router._build_impl for an input that could be constructed
build_impl(r, inp) ==
    IF inp.err # "none"
    THEN [err |-> inp.err, result |-> <<>>]
    ELSE [err |-> "none", result |-> SequentialOutput(r, inp)]

\* Router.compile_program: with_sourcemap and annotate_teal keep the
\* defaults of _RouterCompileInput, both False
compile_program(r, version, assemble_constants, optimize) ==
    build_impl(r, RouterCompileInput(version, assemble_constants, optimize, FALSE, FALSE))

\* the defaults of Router.compile's with_sourcemaps and annotate_teal
with_sourcemaps_default == FALSE

annotate_teal_default == TRUE

\* Router.compile
compile(r, version, assemble_constants, optimize, with_sourcemaps, annotate_teal) ==
    build_impl(r, RouterCompileInput(version, assemble_constants, optimize,
                                     with_sourcemaps, annotate_teal))

\* router.compile(version=v, with_sourcemaps=..., annotate_teal=...)
RouterCompile ==
    /\ \E v \in Versions, with_sourcemaps \in BOOLEAN, annotate_teal \in BOOLEAN :
         LET c == compile(router, v, FALSE, "scratch_slots", with_sourcemaps, annotate_teal)
         IN  reg' = [NoReg EXCEPT
                        !.op = "compile", !.calls = reg.calls,
                        !.given = [version |-> v, with_sourcemaps |-> with_sourcemaps,
                                   annotate_teal |-> annotate_teal],
                        !.err = c.err,
                        !.before = router,
                        !.result = c.result]
    /\ UNCHANGED <<router, input, heap, pc, frame, outputs>>

\* router.compile_program(version=v)
RouterCompileProgram ==
    /\ \E v \in Versions :
         LET c == compile_program(router, v, FALSE, "scratch_slots")
         IN  reg' = [NoReg EXCEPT
                        !.op = "compile_program", !.calls = reg.calls,
                        !.given = [version |-> v],
                        !.err = c.err,
                        !.before = router,
                        !.result = c.result]
    /\ UNCHANGED <<router, input, heap, pc, frame, outputs>>

\* the registration is one add_method_handler must refuse
InvalidRegistration(r, sig, cfg) ==
    \/ \A i \in 1..5 : cfg[i] = NEVER
    \/ \E k \in 1..Len(r.methods) : r.methods[k] = sig
    \/ \E k \in 1..Len(r.methods) : method_selector(r.methods[k]) = method_selector(sig)

\* C15: add_method_handler raises for a configuration that is NEVER for
\* every on-completion, for a signature already registered and for a selector
\* that collides with a registered one, and then the router's method list,
\* its signature/selector maps and its approval AST are as before the call.
C15_InvalidRegistrationRejected ==
    (reg.op = "add_method_handler" /\ InvalidRegistration(reg.before, reg.sig, reg.config)) =>
        /\ reg.err \in {"never executed", "re-registering", "hash collision"}
        /\ router.methods = reg.before.methods
        /\ router.method_sig_to_selector = reg.before.method_sig_to_selector
        /\ router.method_selector_to_sig = reg.before.method_selector_to_sig
        /\ router.conditions_n_branches = reg.before.conditions_n_branches

\* a registration was refused for a hash collision after a method had been
\* registered
W_C15 ==
    /\ reg.op = "add_method_handler"
    /\ reg.err = "hash collision"
    /\ Len(router.methods) = 1
    /\ router.methods[1] # reg.sig

\* the on-completion keywords of the last Router.method call, in the order
\* of the fields of a MethodConfig
GivenKeywords ==
    <<reg.given.no_op, reg.given.opt_in, reg.given.close_out,
      reg.given.update_application, reg.given.delete_application>>

\* C16: without an on-completion configuration (method_config None, or
\* Router.method without on-completion keyword) the method is registered
\* with MethodConfig(no_op=CALL); when Router.method is given an
\* on-completion keyword, every on-completion not given, no_op included,
\* is NEVER.
C16_DefaultMethodConfig ==
    /\ (reg.op = "add_method_handler" /\ reg.given = "None") =>
           /\ reg.config = MethodConfig(CALL, NEVER, NEVER, NEVER, NEVER)
           /\ reg.err = "none" =>
                  router.conditions_n_branches[Len(router.conditions_n_branches)] =
                      MethodBranch(reg.sig, approval_cond(reg.config))
    /\ (reg.op = "method" /\ reg.given.clear_state = NoArg) =>
           /\ (\A i \in 1..5 : GivenKeywords[i] = NoArg) =>
                  reg.config = MethodConfig(CALL, NEVER, NEVER, NEVER, NEVER)
           /\ (\E i \in 1..5 : GivenKeywords[i] # NoArg) =>
                  \A i \in 1..5 :
                      reg.config[i] = IF GivenKeywords[i] = NoArg
                                      THEN NEVER ELSE GivenKeywords[i]
           /\ reg.err = "none" =>
                  router.conditions_n_branches[Len(router.conditions_n_branches)] =
                      MethodBranch(reg.sig, approval_cond(reg.config))

\* a method has been registered through Router.method with opt_in given and
\* no_op not given
W_C16 ==
    /\ reg.op = "method"
    /\ reg.err = "none"
    /\ reg.given.no_op = NoArg
    /\ reg.given.opt_in = CREATE
    /\ Len(router.methods) = 2

\* the messages of the TealInputError the registration API raises
TealInputErrors ==
    {"clear state from MethodConfig", "clear state from bare app call",
     "clear state from method", "contradicts", "never executed",
     "re-registering", "hash collision", "not routable"}

RegisteredSigs ==
    {p[1] : p \in router.method_sig_to_selector}

\* the positions of the method branches of the approval AST
MethodBranches ==
    {i \in 1..Len(router.conditions_n_branches) :
        router.conditions_n_branches[i].method # None}

\* C29: after any sequence of add_method_handler calls, returned or raised,
\* the two maps are inverse bijections of each other, the method list has
\* exactly one entry per registered signature and the approval AST has
\* exactly one method branch per registered signature.
C29_RegistriesAgree ==
    /\ router.method_selector_to_sig =
           {<<p[2], p[1]>> : p \in router.method_sig_to_selector}
    /\ \A p, q \in router.method_sig_to_selector :
           (p[1] = q[1] \/ p[2] = q[2]) => p = q
    /\ Len(router.methods) = Cardinality(RegisteredSigs)
    /\ Range(router.methods) = RegisteredSigs
    /\ \A sig \in RegisteredSigs :
           Cardinality({i \in MethodBranches :
                           router.conditions_n_branches[i].method = sig}) = 1
    /\ \A i \in MethodBranches :
           router.conditions_n_branches[i].method \in RegisteredSigs

\* the methods of the method branches of the approval AST, in branch order
BranchMethods ==
    LET cnb == router.conditions_n_branches
        ms == SelectSeq(cnb, LAMBDA b : b.method # None)
    IN  [i \in 1..Len(ms) |-> ms[i].method]

\* C23: the approval program tests the bare-call branch first when a bare
\* call is registered, then one branch per method in the order the methods
\* were registered, every new method going last; with nothing registered
\* the approval program is Reject.
C23_BranchOrder ==
    LET cnb == router.conditions_n_branches
        ap == build_program(router).ap
    IN  /\ IF ~input.bare_calls /\ BranchMethods = <<>>
           THEN ap.kind = "Reject"
           ELSE ap.kind = "Cond" /\ ap.branches = cnb
        /\ input.bare_calls =>
               cnb # <<>> /\ cnb[1] = BareBranch /\ MethodBranches = 2..Len(cnb)
        /\ ~input.bare_calls => MethodBranches = 1..Len(cnb)
        /\ BranchMethods =
               SelectSeq(router.methods, LAMBDA m : m \in Range(BranchMethods))
        /\ (reg.op \in {"add_method_handler", "method"} /\ reg.err = "none") =>
               cnb = Append(reg.before.conditions_n_branches,
                            MethodBranch(reg.sig, approval_cond(reg.config)))

\* two methods have been registered on a router with a bare call
W_C23 ==
    /\ input.bare_calls
    /\ Len(router.conditions_n_branches) = 3
    /\ reg.op \in {"add_method_handler", "method"}
    /\ reg.err = "none"

\* the place of a step in the order C24 states: the assertion, the
\* decoding, the call, the storing of the returned value, its logging,
\* approve
Rank(step) ==
    IF step.kind = "assert" THEN 0
    ELSE IF step.kind \in {"decode", "decode_tuple", "set_index", "store_into"} THEN 1
    ELSE IF step.kind = "call" THEN 2
    ELSE IF step.kind = "store_output" THEN 3
    ELSE IF step.kind = "log" THEN 4
    ELSE 5

\* how many steps of a branch have the given rank
CountRank(act, n) ==
    Cardinality({i \in 1..Len(act) : Rank(act[i]) = n})

\* C24: in every method branch the steps are, in this order, the assertion
\* of the call-config condition (present exactly when the condition is not
\* the constant 1), the decoding of the arguments, the subroutine call, the
\* storing and the logging of the returned value (present exactly for a
\* method that is not void), and approve; nothing comes before the
\* assertion.
C24_MethodBranchOrder ==
    \A i \in MethodBranches :
        LET b == router.conditions_n_branches[i]
            act == b.act
        IN  /\ \A j, k \in 1..Len(act) : j < k => Rank(act[j]) <= Rank(act[k])
            /\ CountRank(act, 0) = IF b.cond.int = 1 THEN 0 ELSE 1
            /\ CountRank(act, 1) = argument_count(b.method)
            /\ CountRank(act, 2) = 1
            /\ CountRank(act, 3) = IF is_void(b.method) THEN 0 ELSE 1
            /\ CountRank(act, 4) = IF is_void(b.method) THEN 0 ELSE 1
            /\ CountRank(act, 5) = 1
            /\ act[Len(act)].kind = "approve"

\* a method with an argument and a returned value is registered under a
\* condition that has to be asserted, another under the constant 1
W_C24 ==
    /\ \E i \in MethodBranches :
           LET b == router.conditions_n_branches[i]
           IN  /\ b.cond.int = -1
               /\ ~is_void(b.method)
               /\ argument_count(b.method) > 0
               /\ b.act[1].kind = "assert"
    /\ \E i \in MethodBranches : router.conditions_n_branches[i].cond.int = 1

\* C18: Router.compile with the version, assemble_constants and optimize
\* of a compile_program call and every other argument at its default
\* returns the approval TEAL, the clear TEAL and the contract that
\* compile_program returns for the same router.
C18_CompileAsCompileProgram ==
    (/\ reg.op = "compile"
     /\ reg.given.with_sourcemaps = with_sourcemaps_default
     /\ reg.given.annotate_teal = annotate_teal_default) =>
        /\ reg.err = "none"
        /\ reg.result =
               compile_program(router, reg.given.version, FALSE, "scratch_slots").result

\* ------------------------------------------------------------------------
\* MethodConfig.approval_cond evaluated on a transaction
\* ------------------------------------------------------------------------
\* a CallConfig that takes CALL for creation and CREATE for a call
approval_condition_under_config_Swapped(cc) ==
    IF cc = NEVER THEN "0"
    ELSE IF cc = CALL THEN "Txn.application_id() == Int(0)"
    ELSE IF cc = CREATE THEN "Txn.application_id() != Int(0)"
    ELSE "1"

\* CallConfig.approval_condition_under_config
approval_condition_under_config(cc) ==
    IF cc = NEVER THEN "0"
    ELSE IF cc = CALL THEN "Txn.application_id() != Int(0)"
    ELSE IF cc = CREATE THEN "Txn.application_id() == Int(0)"
    ELSE "1"

\* the value of a condition of approval_condition_under_config on a
\* transaction that creates the application (application id 0) or calls it
EvalConfigCond(e, create) ==
    IF e = "0" THEN FALSE
    ELSE IF e = "1" THEN TRUE
    ELSE IF e = "Txn.application_id() != Int(0)" THEN ~create
    ELSE create

\* the value of approval_cond's result on a transaction with on-completion
\* oc: the ints 0 and 1 as they are, else the Or over the terms
\* And(Txn.on_completion() == oc, config_cond) and Txn.on_completion() == oc
EvalApprovalCond(cond, oc, create) ==
    IF cond.int = 0 THEN FALSE
    ELSE IF cond.int = 1 THEN TRUE
    ELSE \E k \in 1..Len(cond.Or) :
             /\ cond.Or[k][1] = oc
             /\ EvalConfigCond(approval_condition_under_config(cond.Or[k][2]), create)

\* the approval-time on-completions, in the order of config_oc_pairs:
\* NoOp, OptIn, CloseOut, UpdateApplication, DeleteApplication
OnCompletes == 1..5

\* a MethodConfig, and a transaction: its on-completion and whether it
\* creates the application
CondInit ==
    /\ router = <<>>
    /\ input = <<>>
    /\ heap = <<>>
    /\ pc = <<>>
    /\ frame = <<>>
    /\ outputs = <<>>
    /\ \E cfg \in [OnCompletes -> CallConfigs], oc \in OnCompletes, create \in BOOLEAN :
         reg = [NoReg EXCEPT !.given = [oc |-> oc, create |-> create], !.config = cfg]

\* reg.config.approval_cond(), evaluated on the transaction reg.given
ApprovalCond ==
    /\ reg.op = "none"
    /\ reg' = [reg EXCEPT
                  !.op = "approval_cond",
                  !.result = EvalApprovalCond(approval_cond(reg.config),
                                              reg.given.oc, reg.given.create)]
    /\ UNCHANGED <<router, input, heap, pc, frame, outputs>>

\* what a CallConfig permits: CALL a call, CREATE a creation, ALL both,
\* NEVER neither
Permits(cc, create) ==
    \/ cc = ALL
    \/ cc = CALL /\ ~create
    \/ cc = CREATE /\ create

\* C19: for every MethodConfig, approval-time on-completion and creation
\* status, the condition of approval_cond holds exactly when the CallConfig
\* configured for that on-completion permits that status.
C19_ApprovalCondExact ==
    reg.op = "approval_cond" =>
        (reg.result = Permits(reg.config[reg.given.oc], reg.given.create))

\* a creation with on-completion OptIn under a config that allows calls
\* with NoOp, creation with OptIn and everything with UpdateApplication
W_C19 ==
    /\ reg.op = "approval_cond"
    /\ reg.config = MethodConfig(CALL, CREATE, NEVER, ALL, NEVER)
    /\ reg.given.oc = 2
    /\ reg.given.create
    /\ reg.result

\* ------------------------------------------------------------------------
\* wrap_handler: the decoding of the arguments of a method
\* ------------------------------------------------------------------------
\* the largest number of arguments of a method that are not transactions
MaxMethodArgs == 17

\* n ABI arguments, with one transaction argument after the first p of
\* them when p is not None
Signature(n, p) ==
    IF p = None
    THEN [k \in 1..n |-> "abi"]
    ELSE [k \in 1..(n + 1) |-> IF k = p THEN "txn" ELSE "abi"]

\* the argument lists of a routable ABIReturnSubroutine
DecodeInit ==
    /\ router = <<>>
    /\ input = <<>>
    /\ heap = <<>>
    /\ pc = <<>>
    /\ frame = <<>>
    /\ outputs = <<>>
    /\ \E n \in 0..MaxMethodArgs, p \in 0..(MaxMethodArgs + 1) :
         /\ p <= n + 1
         /\ reg = [NoReg EXCEPT !.given = Signature(n, p)]

\* ASTBuilder.wrap_handler(True, handler) builds the decoding of the
\* arguments reg.given
WrapHandler ==
    /\ reg.op = "none"
    /\ reg' = [reg EXCEPT !.op = "wrap_handler",
                          !.result = wrap_handler(reg.given, FALSE)]
    /\ UNCHANGED <<router, input, heap, pc, frame, outputs>>

\* the arguments of the method that are not transactions, by position in
\* the signature
AppArgs == ArgsOfKind(reg.given, "abi")

\* the steps that decode an application argument, in order
AppArgDecodes ==
    SelectSeq(reg.result, LAMBDA st : st.kind \in {"decode", "decode_tuple"})

\* the positions of the steps that give the argument at position i of the
\* signature its value
ValueSteps(i) ==
    {k \in 1..Len(reg.result) :
        /\ reg.result[k].kind \in {"decode", "set_index", "store_into"}
        /\ reg.result[k].arg = i}

\* C25: for a method with n arguments that are not transactions,
\* wrap_handler decodes min(n, 15) application arguments, from
\* Txn.application_args[1], [2], ... in order; for n > 15 the first 14 are
\* decoded one by one and the arguments 15..n are decoded as one tuple from
\* application_args[15], in signature order, each element stored into its
\* own value; every argument gets a value exactly once.
C25_ArgumentDecoding ==
    reg.op = "wrap_handler" =>
        LET n == Len(AppArgs)
            dec == AppArgDecodes
        IN  /\ Len(dec) = IF n < 15 THEN n ELSE 15
            /\ \A k \in 1..Len(dec) : dec[k].from = k
            /\ n <= 15 =>
                   \A k \in 1..n : dec[k].kind = "decode" /\ dec[k].arg = AppArgs[k]
            /\ n > 15 =>
                   /\ \A k \in 1..14 : dec[k].kind = "decode" /\ dec[k].arg = AppArgs[k]
                   /\ dec[15].kind = "decode_tuple"
                   /\ dec[15].arg = SubSeq(AppArgs, 15, n)
                   /\ \A j \in 15..n :
                          \E k \in 1..Len(reg.result) :
                              /\ reg.result[k] =
                                     [kind |-> "store_into", arg |-> AppArgs[j],
                                      from |-> j - 15]
                              /\ \E d \in 1..(k - 1) : reg.result[d].kind = "decode_tuple"
            /\ \A i \in 1..Len(reg.given) : Cardinality(ValueSteps(i)) = 1

\* the decoding of a method with 17 arguments and a transaction argument
\* among the first 14 has been built
W_C25 ==
    /\ reg.op = "wrap_handler"
    /\ Len(AppArgs) = 17
    /\ \E i \in 1..14 : reg.given[i] = "txn"

\* ------------------------------------------------------------------------
\* NatalStackFrame: the frame kept for an expression
\* ------------------------------------------------------------------------
\* the longest filtered stack
MaxFrames == 4

\* what the constructor looks at in a FrameInfo: whether its file is one of
\* StackFrame._internal_paths, whether its line imports pyteal, whether its
\* line carries the "# T2PT" marker
FrameInfos ==
    [pyteal : BOOLEAN, import : BOOLEAN, t2pt : BOOLEAN]

\* frame_infos[i], counted from 0 as the code counts
At(frame_infos, i) ==
    frame_infos[i + 1]

\* step 4: the first index from `from` on whose frame is not PyTeal's, or
\* the length of the list when there is none
FastForward(frame_infos, from) ==
    LET out == {i \in from..(Len(frame_infos) - 1) : ~At(frame_infos, i).pyteal}
    IN  IF out = {} THEN Len(frame_infos)
        ELSE CHOOSE i \in out : \A j \in out : i <= j

\* step 5: the closest frame before last_keep_idx with the marker, or
\* last_keep_idx itself when there is none
BackUp(frame_infos, last_keep_idx) ==
    LET marked == {i \in 0..(last_keep_idx - 1) : At(frame_infos, i).t2pt}
    IN  IF marked = {} THEN last_keep_idx
        ELSE CHOOSE i \in marked : \A j \in marked : j <= i

\* a constructor that starts its search at index 1
NatalStackFrame_init_FromOne(frame_infos, off, keep_all) ==
    IF off
    THEN [err |-> "none", frames |-> <<>>, tested |-> None]
    ELSE IF keep_all \/ Len(frame_infos) <= 1
    THEN [err |-> "none", frames |-> [k \in 1..Len(frame_infos) |-> k - 1],
          tested |-> None]
    ELSE LET last_keep_idx == FastForward(frame_infos, 1)
         IN  IF last_keep_idx >= Len(frame_infos)
             THEN [err |-> "IndexError", frames |-> <<>>, tested |-> last_keep_idx]
             ELSE [err |-> "none",
                   frames |-> IF At(frame_infos, last_keep_idx).import
                              THEN <<BackUp(frame_infos, last_keep_idx)>>
                              ELSE <<last_keep_idx>>,
                   tested |-> last_keep_idx]

\* NatalStackFrame.__init__ on the filtered stack frame_infos: the indices
\* of the frames it keeps, the index it tests for a PyTeal import, and the
\* IndexError of frame_infos[last_keep_idx] beyond the end of the list
NatalStackFrame_init(frame_infos, off, keep_all) ==
    IF off
    THEN [err |-> "none", frames |-> <<>>, tested |-> None]
    ELSE IF keep_all \/ Len(frame_infos) <= 1
    THEN [err |-> "none", frames |-> [k \in 1..Len(frame_infos) |-> k - 1],
          tested |-> None]
    ELSE LET last_keep_idx == FastForward(frame_infos, 2)
         IN  IF last_keep_idx >= Len(frame_infos)
             THEN [err |-> "IndexError", frames |-> <<>>, tested |-> last_keep_idx]
             ELSE [err |-> "none",
                   frames |-> IF At(frame_infos, last_keep_idx).import
                              THEN <<BackUp(frame_infos, last_keep_idx)>>
                              ELSE <<last_keep_idx>>,
                   tested |-> last_keep_idx]

\* the filtered stacks
Stacks ==
    UNION {[1..n -> FrameInfos] : n \in 0..MaxFrames}

NoNatal == [op |-> "none", frame_infos |-> <<>>, keep_all |-> FALSE,
            err |-> "none", frames |-> <<>>, tested |-> None]

\* no thread is in a sourcemapping_off_context
NoContext == <<>>

\* a stack, and the class attributes the constructor reads
FramesInit ==
    /\ \E off \in BOOLEAN : flags = [no_stackframes |-> off, debug |-> FALSE]
    /\ flags0 = flags
    /\ ctx = NoContext
    /\ \E st \in Stacks, keep_all \in BOOLEAN :
         natal = [NoNatal EXCEPT !.frame_infos = st, !.keep_all = keep_all]

\* NatalStackFrame() is constructed on the stack natal.frame_infos
ConstructNatalStackFrame ==
    /\ natal.op = "none"
    /\ LET r == NatalStackFrame_init(natal.frame_infos, flags.no_stackframes,
                                     natal.keep_all)
       IN  natal' = [natal EXCEPT !.op = "init", !.err = r.err,
                                  !.frames = r.frames, !.tested = r.tested]
    /\ UNCHANGED <<flags, flags0, ctx>>

\* normal operation: source mapping on, not keep-all debugging, more than
\* one usable frame
NormalOperation ==
    /\ ~flags.no_stackframes
    /\ ~natal.keep_all
    /\ Len(natal.frame_infos) > 1

\* the indices from 2 on of the frames that are not PyTeal-internal
UserFrames ==
    {i \in 2..(Len(natal.frame_infos) - 1) : ~At(natal.frame_infos, i).pyteal}

\* the frames before index i that carry the marker
MarkedBefore(i) ==
    {j \in 0..(i - 1) : At(natal.frame_infos, j).t2pt}

\* C26: in normal operation at most one frame is kept, and it is the first
\* frame at index >= 2 that is not PyTeal-internal, or, when that frame is
\* a PyTeal import line and an earlier frame carries the marker, the
\* closest such earlier frame; with source mapping off no frame is kept.
C26_BestFrameKept ==
    natal.op = "init" =>
        /\ flags.no_stackframes => natal.frames = <<>>
        /\ NormalOperation =>
               /\ Len(natal.frames) <= 1
               /\ UserFrames # {} =>
                      LET first == CHOOSE i \in UserFrames : \A j \in UserFrames : i <= j
                          marked == MarkedBefore(first)
                      IN  IF At(natal.frame_infos, first).import /\ marked # {}
                          THEN natal.frames =
                                   <<CHOOSE j \in marked : \A k \in marked : k <= j>>
                          ELSE natal.frames = <<first>>

\* a frame with the marker has been kept in place of a PyTeal import line
\* behind a PyTeal-internal frame
W_C26 ==
    /\ natal.op = "init"
    /\ NormalOperation
    /\ Len(natal.frame_infos) = 4
    /\ At(natal.frame_infos, 2).pyteal
    /\ natal.tested = 3
    /\ natal.frames = <<1>>

\* C28: with source mapping on, every stack of at least two usable frames
\* is handled without an index out of range: the index that is tested for a
\* PyTeal import and that picks the kept frame is smaller than the number
\* of frames.
C28_IndexInRange ==
    (natal.op = "init" /\ NormalOperation) =>
        /\ natal.err = "none"
        /\ natal.tested < Len(natal.frame_infos)

\* ------------------------------------------------------------------------
\* sourcemapping_off_context
\* ------------------------------------------------------------------------
\* how often a thread enters the context
MaxEnters == 1

\* a thread outside the context
Outside == [pc |-> "out", no_stackframes_before |-> FALSE, debug_before |-> FALSE,
            entered |-> 0]

ContextInit ==
    /\ \E off \in BOOLEAN, dbg \in BOOLEAN : flags = [no_stackframes |-> off, debug |-> dbg]
    /\ flags0 = flags
    /\ ctx = [t \in Threads |-> Outside]
    /\ natal = NoNatal

\* _no_stackframes_before = NatalStackFrame._no_stackframes
SaveNoStackframes(t) ==
    /\ ctx[t].pc = "out"
    /\ ctx[t].entered < MaxEnters
    /\ ctx' = [ctx EXCEPT ![t].pc = "save_debug",
                          ![t].no_stackframes_before = flags.no_stackframes,
                          ![t].entered = @ + 1]
    /\ UNCHANGED <<flags, flags0, natal>>

\* _debug_before = NatalStackFrame._debug
SaveDebug(t) ==
    /\ ctx[t].pc = "save_debug"
    /\ ctx' = [ctx EXCEPT ![t].pc = "set_no_stackframes",
                          ![t].debug_before = flags.debug]
    /\ UNCHANGED <<flags, flags0, natal>>

\* NatalStackFrame._no_stackframes = True
SetNoStackframes(t) ==
    /\ ctx[t].pc = "set_no_stackframes"
    /\ flags' = [flags EXCEPT !.no_stackframes = TRUE]
    /\ ctx' = [ctx EXCEPT ![t].pc = "set_debug"]
    /\ UNCHANGED <<flags0, natal>>

\* NatalStackFrame._debug = False; then the body of the with statement runs
SetDebug(t) ==
    /\ ctx[t].pc = "set_debug"
    /\ flags' = [flags EXCEPT !.debug = FALSE]
    /\ ctx' = [ctx EXCEPT ![t].pc = "body"]
    /\ UNCHANGED <<flags0, natal>>

\* the body is left: NatalStackFrame._no_stackframes = _no_stackframes_before
RestoreNoStackframes(t) ==
    /\ ctx[t].pc = "body"
    /\ flags' = [flags EXCEPT !.no_stackframes = ctx[t].no_stackframes_before]
    /\ ctx' = [ctx EXCEPT ![t].pc = "restore_debug"]
    /\ UNCHANGED <<flags0, natal>>

\* NatalStackFrame._debug = _debug_before
RestoreDebug(t) ==
    /\ ctx[t].pc = "restore_debug"
    /\ flags' = [flags EXCEPT !.debug = ctx[t].debug_before]
    /\ ctx' = [ctx EXCEPT ![t].pc = "out"]
    /\ UNCHANGED <<flags0, natal>>

\* C27: for every interleaving of the threads that enter and leave the
\* context, once every context has been left both flags have the values
\* they had before the first entry, and while a thread is in the body of a
\* context _no_stackframes is true.
C27_FlagsRestored ==
    /\ (\A t \in Threads : ctx[t].pc = "out") => flags = flags0
    /\ (\E t \in Threads : ctx[t].pc = "body") => flags.no_stackframes

\* ------------------------------------------------------------------------
\* And(a1, ..., an): lowering and execution
\* ------------------------------------------------------------------------
\* operands of one And
MaxArgs == 3
\* largest value an operand evaluates to
MaxVal == 2

\* the number of operations operand k lowers to (Int(1): 1; Txn.fee() < Int(100): more)
OperandLen(k) == 1 + (k % 2)

\* the operations of operand k; the last one leaves the operand's value
OperandOps(k) ==
    [j \in 1..OperandLen(k) |-> [op |-> "operand", arg |-> k, last |-> j = OperandLen(k)]]

RECURSIVE NaryTeal_ShortCircuit(_)
\* an And that leaves for the end as soon as an operand is zero
NaryTeal_ShortCircuit(n) ==
    IF n = 1
    THEN OperandOps(1)
    ELSE NaryTeal_ShortCircuit(n - 1)
             \o <<[op |-> "bz end", arg |-> 0, last |-> TRUE]>> \o OperandOps(n)

RECURSIVE NaryTeal(_)
\* the linearized And of n operands: the operands in the order written, with
\* one && after every operand but the first
NaryTeal(n) ==
    IF n = 1
    THEN OperandOps(1)
    ELSE NaryTeal(n - 1) \o OperandOps(n) \o <<[op |-> "&&", arg |-> 0, last |-> TRUE]>>

RECURSIVE OperandOrder(_)
\* the operand of every operand operation, operands as written: 1, 2, ..., n
OperandOrder(n) ==
    IF n = 0 THEN <<>> ELSE OperandOrder(n - 1) \o [j \in 1..OperandLen(n) |-> n]

Bool(b) == IF b THEN 1 ELSE 0

AndInit ==
    /\ \E n \in 1..MaxArgs : andArgs \in [1..n -> 0..MaxVal]
    /\ andCode = <<>>
    /\ ip = 0
    /\ vmStack = <<>>
    /\ trace = <<>>

\* And(...).__teal__ and the linearization of its blocks
LowerAnd ==
    /\ ip = 0
    /\ andCode' = NaryTeal(Len(andArgs))
    /\ ip' = 1
    /\ UNCHANGED <<andArgs, vmStack, trace>>

\* the AVM executes the operation at ip
Exec ==
    /\ ip >= 1
    /\ ip <= Len(andCode)
    /\ LET i == andCode[ip]
           d == Len(vmStack)
       IN  CASE i.op = "operand" ->
                  /\ trace' = Append(trace, i.arg)
                  /\ vmStack' = IF i.last THEN Append(vmStack, andArgs[i.arg]) ELSE vmStack
                  /\ ip' = ip + 1
             [] i.op = "&&" ->
                  /\ vmStack' = Append(SubSeq(vmStack, 1, d - 2),
                                       Bool(vmStack[d - 1] # 0 /\ vmStack[d] # 0))
                  /\ ip' = ip + 1
                  /\ UNCHANGED trace
             [] OTHER ->
                  /\ vmStack' = vmStack
                  /\ ip' = IF vmStack[d] = 0 THEN Len(andCode) + 1 ELSE ip + 1
                  /\ UNCHANGED trace
    /\ UNCHANGED <<andArgs, andCode>>

Executed == ip > Len(andCode) /\ ip >= 1

MaxSubs == 2
\* arguments of one subroutine
MaxSubArgs == 2
\* automatically allocated local variables of one routine
MaxLocals == 2

\* a subroutine as declared: its arguments in call order, whether it returns
\* a value through an output variable, and its local variables in the order
\* they are declared
SubroutineDeclaration(nargs, ret, nlocals) ==
    [nargs |-> nargs, ret |-> ret, nlocals |-> nlocals, allocated |-> FALSE,
     args |-> <<>>, output |-> <<>>, locals |-> <<>>, entry |-> <<>>]

\* an allocator that numbers the arguments from the frame pointer downwards
FrameAllocate_ArgsDownwards(d) ==
    LET base == IF d.ret THEN 1 ELSE 0
    IN  [d EXCEPT
            !.allocated = TRUE,
            !.args = [i \in 1..d.nargs |-> [kind |-> "frame", at |-> 0 - i]],
            !.output = IF d.ret THEN <<[kind |-> "frame", at |-> 0]>> ELSE <<>>,
            !.locals = [k \in 1..d.nlocals |-> [kind |-> "frame", at |-> base + k - 1]],
            !.entry = <<[op |-> "proto", n |-> d.nargs, r |-> base]>>]

\* frame-pointer mode: the arguments lie below the frame pointer in call
\* order, the output variable and the locals at and above it in the order
\* they are declared; the subroutine starts with `proto n r`
FrameAllocate(d) ==
    LET base == IF d.ret THEN 1 ELSE 0
    IN  [d EXCEPT
            !.allocated = TRUE,
            !.args = [i \in 1..d.nargs |-> [kind |-> "frame", at |-> i - d.nargs - 1]],
            !.output = IF d.ret THEN <<[kind |-> "frame", at |-> 0]>> ELSE <<>>,
            !.locals = [k \in 1..d.nlocals |-> [kind |-> "frame", at |-> base + k - 1]],
            !.entry = <<[op |-> "proto", n |-> d.nargs, r |-> base]>>]

\* an allocator that starts every subroutine at slot 0
SlotAllocate_PerSubroutine(d, next) ==
    LET base == d.nargs + (IF d.ret THEN 1 ELSE 0)
    IN  [sub |-> [d EXCEPT
            !.allocated = TRUE,
            !.args = [i \in 1..d.nargs |-> [kind |-> "slot", at |-> i - 1]],
            !.output = IF d.ret THEN <<[kind |-> "slot", at |-> d.nargs]>> ELSE <<>>,
            !.locals = [k \in 1..d.nlocals |-> [kind |-> "slot", at |-> base + k - 1]],
            !.entry = [i \in 1..d.nargs |->
                          [op |-> "store", n |-> d.nargs - i, r |-> 0]]],
         next |-> next]

\* global-slot mode: the arguments, the output variable and the locals get
\* the next free scratch slots of the compilation; the subroutine starts by
\* storing its arguments, the last one first
SlotAllocate(d, next) ==
    LET base == next + d.nargs + (IF d.ret THEN 1 ELSE 0)
    IN  [sub |-> [d EXCEPT
            !.allocated = TRUE,
            !.args = [i \in 1..d.nargs |-> [kind |-> "slot", at |-> next + i - 1]],
            !.output = IF d.ret THEN <<[kind |-> "slot", at |-> next + d.nargs]>> ELSE <<>>,
            !.locals = [k \in 1..d.nlocals |-> [kind |-> "slot", at |-> base + k - 1]],
            !.entry = [i \in 1..d.nargs |->
                          [op |-> "store", n |-> next + d.nargs - i, r |-> 0]]],
         next |-> base + d.nlocals]

AllocInit ==
    /\ mode \in {"frame", "scratch"}
    /\ phase = "declare"
    /\ subs = <<>>
    /\ mainSlots = <<>>
    /\ nextSlot = 0

\* a subroutine is declared
DeclareSubroutine ==
    /\ phase = "declare"
    /\ Len(subs) < MaxSubs
    /\ \E nargs \in 0..MaxSubArgs, ret \in BOOLEAN, nlocals \in 0..MaxLocals :
         subs' = Append(subs, SubroutineDeclaration(nargs, ret, nlocals))
    /\ UNCHANGED <<mode, phase, mainSlots, nextSlot>>

\* the main routine is compiled first: its variables live in scratch slots
\* in either mode
CompileMain ==
    /\ phase = "declare"
    /\ \E m \in 0..MaxLocals :
         /\ mainSlots' = [k \in 1..m |-> [kind |-> "slot", at |-> nextSlot + k - 1]]
         /\ nextSlot' = nextSlot + m
    /\ phase' = "allocate"
    /\ UNCHANGED <<mode, subs>>

\* the next subroutine is compiled
CompileSubroutine ==
    /\ phase = "allocate"
    /\ \E i \in 1..Len(subs) :
         /\ ~subs[i].allocated
         /\ \A j \in 1..(i - 1) : subs[j].allocated
         /\ IF mode = "frame"
            THEN /\ subs' = [subs EXCEPT ![i] = FrameAllocate(@)]
                 /\ UNCHANGED nextSlot
            ELSE LET r == SlotAllocate(subs[i], nextSlot)
                 IN  /\ subs' = [subs EXCEPT ![i] = r.sub]
                     /\ nextSlot' = r.next
    /\ UNCHANGED <<mode, phase, mainSlots>>

Allocated == {i \in 1..Len(subs) : subs[i].allocated}

SlotVariables ==
    {<<0, k>> : k \in 1..Len(mainSlots)} \cup
    {<<s, k>> : s \in Allocated, k \in 1..(MaxSubArgs + MaxLocals + 1)}

SlotOf(v) ==
    IF v[1] = 0 THEN <<mainSlots[v[2]].at>>
    ELSE LET all == subs[v[1]].args \o subs[v[1]].output \o subs[v[1]].locals
         IN  IF v[2] <= Len(all) THEN <<all[v[2]].at>> ELSE <<>>

\* C14: in global-slot mode no two variables of the program, of the main
\* routine and of all subroutines together, have the same scratch slot.
C14_SlotsUnique ==
    mode = "scratch" =>
        \A v, w \in SlotVariables :
            (v # w /\ SlotOf(v) # <<>> /\ SlotOf(w) # <<>>) => SlotOf(v) # SlotOf(w)

\* a main routine with variables and two subroutines with arguments, output
\* variable and locals have been compiled with scratch slots
W_C14 ==
    /\ mode = "scratch"
    /\ Len(mainSlots) = 2
    /\ Allocated = {1, 2}
    /\ \A s \in Allocated : subs[s].nargs = 2 /\ subs[s].ret /\ subs[s].nlocals = 1

AllocIdle ==
    /\ mode = "none"
    /\ phase = "none"
    /\ subs = <<>>
    /\ mainSlots = <<>>
    /\ nextSlot = 0

SourcemapIdle ==
    /\ flags = <<>>
    /\ flags0 = <<>>
    /\ ctx = <<>>
    /\ natal = <<>>

\* the Router and the AVM take no part in the lowering of a loop
RouterIdle ==
    /\ router = <<>>
    /\ input = <<>>
    /\ heap = <<>>
    /\ pc = <<>>
    /\ frame = <<>>
    /\ outputs = <<>>
    /\ reg = <<>>

AndIdle ==
    /\ andArgs = <<>>
    /\ andCode = <<>>
    /\ ip = 0
    /\ vmStack = <<>>
    /\ trace = <<>>

LoopIdle ==
    /\ blocks = <<>>
    /\ options = <<>>
    /\ stack = <<>>
    /\ loops = <<>>
    /\ breakReg = {}
    /\ contReg = {}
    /\ err = "none"
    /\ nodes = 0
    /\ last = <<>>
    /\ ifs = <<>>
    /\ code = <<>>

Init ==
    /\ LoopInit
    /\ RouterIdle
    /\ AndIdle
    /\ AllocIdle
    /\ SourcemapIdle

Next ==
    \/ LowerPlain /\ UNCHANGED <<rvars, avars, fvars, svars>>
    \/ LowerBreak /\ UNCHANGED <<rvars, avars, fvars, svars>>
    \/ LowerContinue /\ UNCHANGED <<rvars, avars, fvars, svars>>
    \/ LowerWhileEnter /\ UNCHANGED <<rvars, avars, fvars, svars>>
    \/ LowerWhileExit /\ UNCHANGED <<rvars, avars, fvars, svars>>
    \/ Linearize /\ UNCHANGED <<rvars, avars, fvars, svars>>

Spec == Init /\ [][Next]_vars

\* programs of Ifs and expressions without control flow
NextIf ==
    \/ LowerPlain /\ UNCHANGED <<rvars, avars, fvars, svars>>
    \/ LowerIf /\ UNCHANGED <<rvars, avars, fvars, svars>>
    \/ Linearize /\ UNCHANGED <<rvars, avars, fvars, svars>>

SpecIf == Init /\ [][NextIf]_vars

InitRouter ==
    /\ RouterInit
    /\ LoopIdle
    /\ AndIdle
    /\ AllocIdle
    /\ SourcemapIdle

NextRouter ==
    \/ \E t \in Threads : CallCompileProgram(t) /\ UNCHANGED <<lvars, avars, fvars, svars>>
    \/ \E t \in Threads : Compile(t) /\ UNCHANGED <<lvars, avars, fvars, svars>>
    \/ \E t \in Threads : ApprovalCompiled(t) /\ UNCHANGED <<lvars, avars, fvars, svars>>
    \/ \E t \in Threads : ClearCompiled(t) /\ UNCHANGED <<lvars, avars, fvars, svars>>

SpecRouter == InitRouter /\ [][NextRouter]_vars

InitAnd ==
    /\ AndInit
    /\ LoopIdle
    /\ RouterIdle
    /\ AllocIdle
    /\ SourcemapIdle

NextAnd ==
    \/ LowerAnd /\ UNCHANGED <<lvars, rvars, fvars, svars>>
    \/ Exec /\ UNCHANGED <<lvars, rvars, fvars, svars>>

SpecAnd == InitAnd /\ [][NextAnd]_vars

InitRegister ==
    /\ RegisterInit
    /\ LoopIdle
    /\ AndIdle
    /\ AllocIdle
    /\ SourcemapIdle

NextRegister ==
    \/ AddMethodHandler /\ UNCHANGED <<lvars, avars, fvars, svars>>
    \/ RouterMethod /\ UNCHANGED <<lvars, avars, fvars, svars>>
    \/ ConstructMethodConfig /\ UNCHANGED <<lvars, avars, fvars, svars>>
    \/ ConstructBareCallActions /\ UNCHANGED <<lvars, avars, fvars, svars>>
    \/ RouterCompile /\ UNCHANGED <<lvars, avars, fvars, svars>>
    \/ RouterCompileProgram /\ UNCHANGED <<lvars, avars, fvars, svars>>

SpecRegister == InitRegister /\ [][NextRegister]_vars

InitCond ==
    /\ CondInit
    /\ LoopIdle
    /\ AndIdle
    /\ AllocIdle
    /\ SourcemapIdle

NextCond ==
    ApprovalCond /\ UNCHANGED <<lvars, avars, fvars, svars>>

SpecCond == InitCond /\ [][NextCond]_vars

InitDecode ==
    /\ DecodeInit
    /\ LoopIdle
    /\ AndIdle
    /\ AllocIdle
    /\ SourcemapIdle

NextDecode ==
    WrapHandler /\ UNCHANGED <<lvars, avars, fvars, svars>>

SpecDecode == InitDecode /\ [][NextDecode]_vars

InitFrames ==
    /\ FramesInit
    /\ LoopIdle
    /\ RouterIdle
    /\ AndIdle
    /\ AllocIdle

NextFrames ==
    ConstructNatalStackFrame /\ UNCHANGED <<lvars, rvars, avars, fvars>>

SpecFrames == InitFrames /\ [][NextFrames]_vars

InitContext ==
    /\ ContextInit
    /\ LoopIdle
    /\ RouterIdle
    /\ AndIdle
    /\ AllocIdle

NextContext ==
    \/ \E t \in Threads : SaveNoStackframes(t) /\ UNCHANGED <<lvars, rvars, avars, fvars>>
    \/ \E t \in Threads : SaveDebug(t) /\ UNCHANGED <<lvars, rvars, avars, fvars>>
    \/ \E t \in Threads : SetNoStackframes(t) /\ UNCHANGED <<lvars, rvars, avars, fvars>>
    \/ \E t \in Threads : SetDebug(t) /\ UNCHANGED <<lvars, rvars, avars, fvars>>
    \/ \E t \in Threads : RestoreNoStackframes(t) /\ UNCHANGED <<lvars, rvars, avars, fvars>>
    \/ \E t \in Threads : RestoreDebug(t) /\ UNCHANGED <<lvars, rvars, avars, fvars>>

SpecContext == InitContext /\ [][NextContext]_vars

InitAlloc ==
    /\ AllocInit
    /\ LoopIdle
    /\ RouterIdle
    /\ AndIdle
    /\ SourcemapIdle

NextAlloc ==
    \/ DeclareSubroutine /\ UNCHANGED <<lvars, rvars, avars, svars>>
    \/ CompileMain /\ UNCHANGED <<lvars, rvars, avars, svars>>
    \/ CompileSubroutine /\ UNCHANGED <<lvars, rvars, avars, svars>>

SpecAlloc == InitAlloc /\ [][NextAlloc]_vars

====
